---- MODULE Spec2Model ----
(***************************************************************************)
(* A model of basic-acd: the Redis store shared by the REST operations     *)
(* (operations.py) and the dispatcher loop (dispatcher.py).                *)
(*                                                                         *)
(* One step of the model is one round trip to the store (one `await` on    *)
(* the client); the store executes each command atomically.  A timestamp   *)
(* round(time.time()*1000) is an argument the client evaluates before it   *)
(* sends the command: it is read when the reply to the actor's previous    *)
(* command arrived (in the model, in the actor's previous step), and the   *)
(* store executes the command that carries it one step later.              *)
(*                                                                         *)
(* redis-py's Lock, as the operations use it:                              *)
(*   acquire(), blocking_timeout=.1 with the default sleep of .1: one      *)
(*     SET NX; a second try would start after the blocking budget, so a    *)
(*     held lock makes acquire() return False;                             *)
(*   locked(): whether the lock's key exists, whoever holds it;            *)
(*   release(): raises LockError when this Lock object holds no token.     *)
(* The hold timeout (LOCK_TIMEOUT, 1 s) is not modelled: every locked      *)
(* section is taken to finish before its lock expires.                     *)
(***************************************************************************)
EXTENDS Integers, Sequences, FiniteSets, TLC

\* ---------------------------------------------------------------- bounds
NumAgents == 2
NumSkills == 2
NumContacts == 2
NumDispatchers == 2
NumClients == 2
\* Spec, every operation: the agent and bulk requests, the contacts and the
\* dispatcher instances of one behaviour
MaxOps == 1
MaxContacts == 1
MaxDispatchers == 1
\* Spec and SpecRace: the REST requests served at a time
MaxClients == 1
\* SpecState, one dispatcher instance against the contact operations and
\* set_agent_state: the set_agent_state requests of one behaviour
MaxStateOps == 1
\* SpecSeq, the agent and bulk requests one after another: the requests of
\* one behaviour
MaxSeqOps == 2
\* the clock's last value (ms)
MaxTime == 2
\* the ms the opening scan of the ACD may have taken
OpenSpan == 1
\* the longest skills list create_agent or add_agent_skill is started on
MaxSkillsLen == 2
\* requeues of one contact
MaxRequeues == 1

\* ------------------------------------------------------- program constants
UNAVAILABLE == 0
AVAILABLE == 1
QUEUED == 1
ASSIGNED == 2
COMPLETE == 3
Decelerator == 1000

\* ------------------------------------------------------------------ sets
Agents == 1..NumAgents
Skills == 1..NumSkills
Contacts == 1..NumContacts
Dispatchers == 1..NumDispatchers
Clients == (NumDispatchers + 1)..(NumDispatchers + NumClients)
Actors == Dispatchers \cup Clients

\* a member that is not in a sorted set; the null agent of a contact
Absent == -1
NoKey == 0

RECURSIVE SeqsUpTo(_, _)
SeqsUpTo(S, n) ==
    IF n = 0 THEN {<<>>}
    ELSE LET shorter == SeqsUpTo(S, n - 1)
         IN  shorter \cup {Append(q, x) : q \in shorter, x \in S}

\* the skills lists a caller may pass to create_agent
SkillLists == SeqsUpTo(Skills, MaxSkillsLen)
\* the skills a caller may pass to create_contact (§3: non-empty)
SkillSets == (SUBSET Skills) \ {{}}

VARIABLES
    agentDoc,     \* agent:<id> JSON documents
    availIdx,     \* {availAgentsSkill}:<skill> sorted sets: member -> score
    contactDoc,   \* contact:<uuid> JSON documents
    queue,        \* the sorted set 'queue': member -> score
    lock,         \* <agent_key>:lock keys: the actor holding each, or NoKey
    now,          \* round(time.time()*1000)
    call,         \* per actor: the agent operation it is inside
    rest,         \* per REST client: the request it is serving
    disp,         \* per dispatcher instance: its place in dispatch()
    budget,       \* what is still to come: agent and bulk requests,
                  \* contacts, dispatcher instances; the REST requests
                  \* served at a time; whether hist keeps the requests
    hist          \* history: what the claims refer to and the store forgets

vars == <<agentDoc, availIdx, contactDoc, queue, lock, now, call, rest, disp,
          budget, hist>>

storeVars == <<agentDoc, availIdx, contactDoc, queue, lock>>

\* ------------------------------------------------------------ documents
\* fname and lname of an agent: as they were given to create_agent, or as
\* change_agent_info wrote them
GivenName == "given"
ChangedName == "changed"

NoAgent ==
    [exists |-> FALSE, name |-> "", skills |-> <<>>, state |-> UNAVAILABLE]
NoContact == [exists |-> FALSE, skills |-> {}, state |-> QUEUED, agent |-> NoKey]

\* The name of the lock of agent_key: f'{agent_key}:lock'.  A key of the REST
\* path or of the dispatcher is a str ('agent:1:lock'); a key yielded by
\* scan_iter is bytes, and formats as "b'agent:1':lock".
LockForms == {"str", "bytes"}
LockName(form, key) == <<form, key>>
LockNames == LockForms \X Agents

NoCall == [op |-> "none", pc |-> "idle", key |-> NoKey, form |-> "str",
           state |-> UNAVAILABLE, skill |-> NoKey, skills |-> <<>>,
           idx |-> Absent, time |-> 0, acquired |-> FALSE, resp |-> "NONE"]

IdleRest == [op |-> "none", pc |-> "idle", state |-> UNAVAILABLE,
             skill |-> NoKey, todo |-> {}, key |-> NoKey, timestamp |-> 0,
             resp |-> "NONE"]

IdleDisp == [pc |-> "pop", contact_key |-> NoKey, timestamp |-> 0,
             skills |-> {}, agents |-> <<>>, idx |-> 0, scores |-> <<>>,
             failed |-> {}]
OffDisp == [IdleDisp EXCEPT !.pc = "off"]

\* ----------------------------------------------------------- sorted sets
Members(zset) == {m \in DOMAIN zset : zset[m] # Absent}
ZAdd(zset, member, score) == [zset EXCEPT ![member] = score]
\* a removal that removes nothing
ZKeep(zset, member) == zset
ZRem(zset, member) == [zset EXCEPT ![member] = Absent]

\* Sorted-set order: by score, then by member.
Before(zset, a, b) ==
    \/ zset[a] < zset[b]
    \/ zset[a] = zset[b] /\ a < b

\* BZPOPMIN: the member with the smallest score.
MinOfZ(zset) ==
    CHOOSE m \in Members(zset) : \A o \in Members(zset) \ {m} : Before(zset, m, o)

RECURSIVE SumScores(_, _, _)
SumScores(idx, skillSet, member) ==
    IF skillSet = {} THEN 0
    ELSE LET s == CHOOSE x \in skillSet : TRUE
         IN  idx[s][member] + SumScores(idx, skillSet \ {s}, member)

\* ZINTER over the indexes of skillSet: members of all of them, each with the
\* sum of its scores.
InterScores(idx, skillSet) ==
    [m \in {a \in Agents : \A s \in skillSet : idx[s][a] # Absent}
        |-> SumScores(idx, skillSet, m)]

RECURSIVE SortedDesc(_)
SortedDesc(zset) ==
    IF DOMAIN zset = {} THEN <<>>
    ELSE LET m == CHOOSE x \in DOMAIN zset :
                    \A o \in DOMAIN zset \ {x} : Before(zset, o, x)
         IN  <<m>> \o SortedDesc([x \in DOMAIN zset \ {m} |-> zset[x]])
RECURSIVE SortedAsc(_)
SortedAsc(zset) ==
    IF DOMAIN zset = {} THEN <<>>
    ELSE LET m == CHOOSE x \in DOMAIN zset :
                    \A o \in DOMAIN zset \ {x} : Before(zset, x, o)
         IN  <<m>> \o SortedAsc([x \in DOMAIN zset \ {m} |-> zset[x]])

\* the reverse order: the members, largest sum first
ZInterDesc(idx, skillSet) == SortedDesc(InterScores(idx, skillSet))
\* the reply of ZINTER without scores: the members, smallest sum first
ZInter(idx, skillSet) == SortedAsc(InterScores(idx, skillSet))

\* JSON.ARRINDEX: the first index of skill (0-based), or -1
\* a search that reports the first position for every skill
ArrIndexFirst(skills, skill) == 0

ArrIndex(skills, skill) ==
    IF \E i \in 1..Len(skills) : skills[i] = skill
    THEN (CHOOSE i \in 1..Len(skills) :
            skills[i] = skill /\ \A j \in 1..(i - 1) : skills[j] # skill) - 1
    ELSE -1

\* JSON.ARRPOP at a 0-based index; an index past the end pops the last
ArrPop(skills, idx) ==
    IF skills = <<>> THEN skills
    ELSE LET i == IF idx + 1 > Len(skills) THEN Len(skills) ELSE idx + 1
         IN  SubSeq(skills, 1, i - 1) \o SubSeq(skills, i + 1, Len(skills))

SkillsOf(seq) == {seq[i] : i \in 1..Len(seq)}


\* ------------------------------------------------------------------ Init
\* The store once the agents were created and the ACD opened, as
\* simulator.openAcd does: create_agent for each key, then
\* set_acd_state(OPEN).  The simulator gives every agent a language and an
\* expertise.
InitSkills == <<1, NumSkills>>

\* An agent after create_agent(key, skills) and set_agent_state(key,
\* AVAILABLE): with no skill the loop that writes the state never ran.
Opened(skills) ==
    [exists |-> TRUE, name |-> GivenName, skills |-> skills,
     state |-> IF skills = <<>> THEN UNAVAILABLE ELSE AVAILABLE]

\* The times the opening scan made the agents AVAILABLE at: one agent first,
\* the others OpenSpan later.
InitSince ==
    {[k \in Agents |-> IF k = first THEN 0 ELSE OpenSpan] : first \in Agents}

InitStore(docs, since) ==
    /\ agentDoc = docs
    /\ availIdx = [s \in Skills |->
                     [k \in Agents |->
                        IF docs[k].state = AVAILABLE /\ s \in SkillsOf(docs[k].skills)
                        THEN since[k] ELSE Absent]]
    /\ contactDoc = [c \in Contacts |-> NoContact]
    /\ queue = [c \in Contacts |-> Absent]
    /\ lock = [n \in LockNames |-> NoKey]
    /\ now = OpenSpan
    /\ call = [a \in Actors |-> NoCall]
    /\ rest = [a \in Clients |-> IdleRest]
    /\ disp = [d \in Dispatchers |-> OffDisp]
    /\ hist = [abandoned |-> {}, assignLog |-> <<>>,
               enq |-> [c \in Contacts |-> Absent], requeued |-> {},
               changed |-> [d \in Dispatchers |-> {}],
               before |-> <<>>, returns |-> <<>>]

\* Spec: an agent has the simulator's skills, or one skill twice, or was
\* never created.
InitDocs == [Agents -> {Opened(InitSkills), Opened(<<1, 1>>), NoAgent}]

Init ==
    /\ \E docs \in InitDocs, since \in InitSince : InitStore(docs, since)
    /\ budget = [ops |-> MaxOps, contacts |-> MaxContacts,
                 dispatchers |-> MaxDispatchers, clients |-> MaxClients,
                 history |-> FALSE]

\* SpecState: the simulator's agents, one dispatcher instance (§4.4: a
\* single logical consumer).
InitState ==
    /\ \E since \in InitSince :
          InitStore([k \in Agents |-> Opened(InitSkills)], since)
    /\ budget = [ops |-> MaxStateOps, contacts |-> NumContacts,
                 dispatchers |-> 1, clients |-> MaxClients, history |-> FALSE]

\* The first agent has one skill, the others the simulator's two.
InitMixed(dispatchers, clients) ==
    /\ \E since \in InitSince :
          InitStore([k \in Agents |->
                       IF k = 1 THEN Opened(<<1>>) ELSE Opened(InitSkills)], since)
    /\ budget = [ops |-> 0, contacts |-> NumContacts,
                 dispatchers |-> dispatchers, clients |-> clients,
                 history |-> FALSE]

\* SpecRace: several dispatcher instances (§4.4: a deployment may run
\* multiple instances).
InitRace == InitMixed(NumDispatchers, MaxClients)

\* SpecFifo: one dispatcher instance, the REST requests served concurrently.
InitFifo == InitMixed(1, NumClients)

\* SpecSeq: agent and bulk requests served one after another, no contact and
\* no dispatcher; an agent has the simulator's skills, one skill twice, one
\* skill, none, or was never created.  hist keeps the requests.
SeqDocs ==
    [Agents -> {Opened(InitSkills), Opened(<<1, 1>>), Opened(<<1>>),
                Opened(<<>>), NoAgent}]

InitSeq ==
    /\ \E docs \in SeqDocs, since \in InitSince : InitStore(docs, since)
    /\ budget = [ops |-> MaxSeqOps, contacts |-> 0, dispatchers |-> 0,
                 clients |-> MaxClients, history |-> TRUE]

\* round(time.time()*1000): the last reading, or a later one.  Time passes
\* unseen between two readings.
TimeNow == {t \in now..(now + 1) : t <= MaxTime}

\* ------------------------------------------------- the agent operations
\* A call frame: one of create_agent, delete_agent, set_agent_state,
\* add_agent_skill, delete_agent_skill, run by actor a.
NewCall(op, key, form, state, skill, skills) ==
    [NoCall EXCEPT !.op = op, !.pc = "acquire", !.key = key, !.form = form,
                   !.state = state, !.skill = skill, !.skills = skills]

\* leave the try block with a response; a raised store error is ERR
Respond(a, resp) ==
    call' = [call EXCEPT ![a].pc = "finally", ![a].resp = resp,
                         ![a].skills = <<>>, ![a].idx = Absent, ![a].time = 0]

Goto(a, pc) == call' = [call EXCEPT ![a].pc = pc]

\* lock.acquire(): SET <name> NX
LockBusy(a) ==
    lock[LockName(call[a].form, call[a].key)] # NoKey

Acquire(a) ==
    /\ call[a].pc = "acquire"
    /\ IF LockBusy(a)
       THEN /\ call' = [call EXCEPT ![a].pc = "finally", ![a].resp = "LOCKED"]
            /\ UNCHANGED lock
       ELSE /\ lock' = [lock EXCEPT ![LockName(call[a].form, call[a].key)] = a]
            /\ call' = [call EXCEPT ![a].pc = "exists", ![a].acquired = TRUE]
    /\ UNCHANGED <<agentDoc, availIdx, contactDoc, queue, now, rest, disp,
                   budget, hist>>

\* the first pc of each operation once the key's existence is settled
AfterExists(op) ==
    CASE op = "delete_agent" -> "da_getskills"
      [] op = "set_agent_state" -> "sas_getstate"
      [] op = "add_agent_skill" -> "aas_append"
      [] op = "delete_agent_skill" -> "das_index"

\* client.exists(agent_key)
Exists(a) ==
    /\ call[a].pc = "exists"
    /\ IF call[a].op = "create_agent"
       THEN IF agentDoc[call[a].key].exists
            THEN Respond(a, "ERR")
            ELSE Goto(a, "ca_set")
       ELSE IF ~agentDoc[call[a].key].exists
            THEN Respond(a, "ERR")
            ELSE Goto(a, AfterExists(call[a].op))
    /\ UNCHANGED <<storeVars, now, rest, disp, budget, hist>>

\* a record written in the other agent state
agent_obj_available(skills) ==
    [exists |-> TRUE, name |-> GivenName, skills |-> skills,
     state |-> AVAILABLE]

\* create_agent: the record of a new agent
agent_obj(skills) ==
    [exists |-> TRUE, name |-> GivenName, skills |-> skills,
     state |-> UNAVAILABLE]

\* create_agent: json().set(agent_key, '$', agent_obj)
create_agent_set(a) ==
    /\ call[a].pc = "ca_set"
    /\ agentDoc' = [agentDoc EXCEPT ![call[a].key] = agent_obj(call[a].skills)]
    /\ Respond(a, "OK")
    /\ UNCHANGED <<availIdx, contactDoc, queue, lock, now, rest, disp,
                   budget, hist>>

\* delete_agent: json().get(agent_key, '$.skills'); None[0] raises
delete_agent_getskills(a) ==
    /\ call[a].pc = "da_getskills"
    /\ IF ~agentDoc[call[a].key].exists
       THEN Respond(a, "ERR")
       ELSE call' = [call EXCEPT
                       ![a].skills = agentDoc[call[a].key].skills,
                       ![a].pc = IF agentDoc[call[a].key].skills = <<>>
                                 THEN "da_delete" ELSE "da_zrem"]
    /\ UNCHANGED <<storeVars, now, rest, disp, budget, hist>>

\* delete_agent: zrem(index of skill, agent_key), for each skill
delete_agent_zrem(a) ==
    /\ call[a].pc = "da_zrem"
    /\ availIdx' = [availIdx EXCEPT ![Head(call[a].skills)] =
                      ZRem(@, call[a].key)]
    /\ call' = [call EXCEPT
                  ![a].skills = Tail(@),
                  ![a].pc = IF Tail(call[a].skills) = <<>>
                            THEN "da_delete" ELSE "da_zrem"]
    /\ UNCHANGED <<agentDoc, contactDoc, queue, lock, now, rest, disp,
                   budget, hist>>

\* delete_agent: json().delete(agent_key)
delete_agent_delete(a) ==
    /\ call[a].pc = "da_delete"
    /\ agentDoc' = [agentDoc EXCEPT ![call[a].key] = NoAgent]
    /\ Respond(a, "OK")
    /\ UNCHANGED <<availIdx, contactDoc, queue, lock, now, rest, disp,
                   budget, hist>>

\* set_agent_state: current_state = json().get(agent_key, '$.state')[0]
set_agent_state_getstate(a) ==
    /\ call[a].pc = "sas_getstate"
    /\ IF ~agentDoc[call[a].key].exists
       THEN Respond(a, "ERR")
       ELSE IF agentDoc[call[a].key].state # call[a].state
            THEN Goto(a, "sas_getskills")
            ELSE Respond(a, "ERR")
    /\ UNCHANGED <<storeVars, now, rest, disp, budget, hist>>

\* set_agent_state, entering an iteration of the loop: for AVAILABLE, the
\* score of the zadd is read
EnterLoop(a, skills) ==
    \E t \in (IF call[a].state = AVAILABLE THEN TimeNow ELSE {now}) :
        /\ now' = t
        /\ call' = [call EXCEPT
                      ![a].skills = skills, ![a].pc = "sas_index",
                      ![a].time = IF call[a].state = AVAILABLE THEN t ELSE 0]

\* set_agent_state: skills = json().get(agent_key, '$.skills'); with no
\* skill the loop body never runs and the response is OK
set_agent_state_getskills(a) ==
    /\ call[a].pc = "sas_getskills"
    /\ IF ~agentDoc[call[a].key].exists
       THEN Respond(a, "ERR") /\ UNCHANGED now
       ELSE IF agentDoc[call[a].key].skills = <<>>
            THEN Respond(a, "OK") /\ UNCHANGED now
            ELSE EnterLoop(a, agentDoc[call[a].key].skills)
    /\ UNCHANGED <<storeVars, rest, disp, budget, hist>>

\* set_agent_state, in the loop: zadd / zrem on the index of the skill
IndexUpdate(zset, key, state, time) ==
    IF state = AVAILABLE THEN ZAdd(zset, key, time) ELSE ZRem(zset, key)

set_agent_state_index(a) ==
    /\ call[a].pc = "sas_index"
    /\ availIdx' = [availIdx EXCEPT ![Head(call[a].skills)] =
                      IndexUpdate(@, call[a].key, call[a].state, call[a].time)]
    /\ Goto(a, "sas_setstate")
    /\ UNCHANGED <<agentDoc, contactDoc, queue, lock, now, rest, disp,
                   budget, hist>>

\* hist: the agents whose state the iteration of dispatcher d has written
Written(d, key) == [hist EXCEPT !.changed[d] = @ \cup {key}]

\* set_agent_state, in the loop: json().set(agent_key, '$.state', state);
\* JSON.SET of a path in a missing document is an error
set_agent_state_setstate(a) ==
    /\ call[a].pc = "sas_setstate"
    /\ IF ~agentDoc[call[a].key].exists
       THEN /\ Respond(a, "ERR")
            /\ UNCHANGED <<agentDoc, now>>
       ELSE /\ agentDoc' = [agentDoc EXCEPT ![call[a].key].state = call[a].state]
            /\ IF Tail(call[a].skills) = <<>>
               THEN Respond(a, "OK") /\ UNCHANGED now
               ELSE EnterLoop(a, Tail(call[a].skills))
    /\ hist' = IF a \in Dispatchers /\ agentDoc[call[a].key].exists
               THEN Written(a, call[a].key) ELSE hist
    /\ UNCHANGED <<availIdx, contactDoc, queue, lock, rest, disp, budget>>

\* add_agent_skill: json().arrappend(agent_key, '$.skills', skill)
add_agent_skill_append(a) ==
    /\ call[a].pc = "aas_append"
    /\ IF ~agentDoc[call[a].key].exists
       THEN /\ Respond(a, "ERR")
            /\ UNCHANGED agentDoc
       ELSE /\ agentDoc' = [agentDoc EXCEPT ![call[a].key].skills =
                              Append(@, call[a].skill)]
            /\ Goto(a, "aas_getstate")
    /\ UNCHANGED <<availIdx, contactDoc, queue, lock, now, rest, disp,
                   budget, hist>>

\* add_agent_skill: current_state = json().get(agent_key, '$.state')[0];
\* for AVAILABLE, the score of the zadd is read
add_agent_skill_getstate(a) ==
    /\ call[a].pc = "aas_getstate"
    /\ IF ~agentDoc[call[a].key].exists
       THEN Respond(a, "ERR") /\ UNCHANGED now
       ELSE IF agentDoc[call[a].key].state = AVAILABLE
            THEN \E t \in TimeNow :
                    /\ now' = t
                    /\ call' = [call EXCEPT ![a].pc = "aas_zadd", ![a].time = t]
            ELSE Respond(a, "OK") /\ UNCHANGED now
    /\ UNCHANGED <<storeVars, rest, disp, budget, hist>>

\* add_agent_skill: zadd(index of skill, {agent_key: timestamp})
add_agent_skill_zadd(a) ==
    /\ call[a].pc = "aas_zadd"
    /\ availIdx' = [availIdx EXCEPT ![call[a].skill] =
                      ZAdd(@, call[a].key, call[a].time)]
    /\ Respond(a, "OK")
    /\ UNCHANGED <<agentDoc, contactDoc, queue, lock, now, rest, disp,
                   budget, hist>>

\* delete_agent_skill: idx = json().arrindex(agent_key, '$.skills', skill)[0]
delete_agent_skill_index(a) ==
    /\ call[a].pc = "das_index"
    /\ IF ~agentDoc[call[a].key].exists
       THEN Respond(a, "ERR")
       ELSE IF ArrIndex(agentDoc[call[a].key].skills, call[a].skill) >= 0
            THEN call' = [call EXCEPT
                            ![a].idx = ArrIndex(agentDoc[call[a].key].skills,
                                                call[a].skill),
                            ![a].pc = "das_pop"]
            ELSE Respond(a, "ERR")
    /\ UNCHANGED <<storeVars, now, rest, disp, budget, hist>>

\* delete_agent_skill: json().arrpop(agent_key, '$.skills', idx)
delete_agent_skill_pop(a) ==
    /\ call[a].pc = "das_pop"
    /\ IF ~agentDoc[call[a].key].exists
       THEN /\ Respond(a, "ERR")
            /\ UNCHANGED agentDoc
       ELSE /\ agentDoc' = [agentDoc EXCEPT ![call[a].key].skills =
                              ArrPop(@, call[a].idx)]
            /\ Goto(a, "das_zrem")
    /\ UNCHANGED <<availIdx, contactDoc, queue, lock, now, rest, disp,
                   budget, hist>>

\* delete_agent_skill: zrem(index of skill, agent_key)
delete_agent_skill_zrem(a) ==
    /\ call[a].pc = "das_zrem"
    /\ availIdx' = [availIdx EXCEPT ![call[a].skill] = ZRem(@, call[a].key)]
    /\ Respond(a, "OK")
    /\ UNCHANGED <<agentDoc, contactDoc, queue, lock, now, rest, disp,
                   budget, hist>>

\* finally: if await lock.locked(): await lock.release(); return Response.
\* locked() is true of a lock another actor holds, and release() of a lock
\* this call never acquired raises LockError out of the operation.
\* change_agent_info takes no lock: client.exists(agent_key)
change_agent_info_exists(a) ==
    /\ call[a].pc = "cai_exists"
    /\ IF agentDoc[call[a].key].exists
       THEN Goto(a, "cai_mset")
       ELSE call' = [call EXCEPT ![a].pc = "return", ![a].resp = "ERR"]
    /\ UNCHANGED <<storeVars, now, rest, disp, budget, hist>>

\* change_agent_info: json().mset of '$.fname' and '$.lname'; JSON.MSET of a
\* path in a missing document is an error.  Its finally clause only returns.
change_agent_info_mset(a) ==
    /\ call[a].pc = "cai_mset"
    /\ IF agentDoc[call[a].key].exists
       THEN /\ agentDoc' = [agentDoc EXCEPT ![call[a].key].name = ChangedName]
            /\ call' = [call EXCEPT ![a].pc = "return", ![a].resp = "OK"]
       ELSE /\ call' = [call EXCEPT ![a].pc = "return", ![a].resp = "ERR"]
            /\ UNCHANGED agentDoc
    /\ UNCHANGED <<availIdx, contactDoc, queue, lock, now, rest, disp,
                   budget, hist>>

Finally(a) ==
    /\ call[a].pc = "finally"
    /\ IF call[a].acquired
       THEN /\ lock' = [lock EXCEPT ![LockName(call[a].form, call[a].key)] = NoKey]
            /\ Goto(a, "return")
       ELSE /\ call' = [call EXCEPT
                          ![a].pc = "return",
                          ![a].resp = IF LockBusy(a) THEN "RAISED" ELSE @]
            /\ UNCHANGED lock
    /\ UNCHANGED <<agentDoc, availIdx, contactDoc, queue, now, rest, disp,
                   budget, hist>>

set_agent_state_step(a) ==
    \/ Acquire(a)
    \/ Exists(a)
    \/ set_agent_state_getstate(a)
    \/ set_agent_state_getskills(a)
    \/ set_agent_state_index(a)
    \/ set_agent_state_setstate(a)
    \/ Finally(a)

AgentOpStep(a) ==
    \/ set_agent_state_step(a)
    \/ create_agent_set(a)
    \/ delete_agent_getskills(a)
    \/ delete_agent_zrem(a)
    \/ delete_agent_delete(a)
    \/ add_agent_skill_append(a)
    \/ add_agent_skill_getstate(a)
    \/ add_agent_skill_zadd(a)
    \/ delete_agent_skill_index(a)
    \/ delete_agent_skill_pop(a)
    \/ delete_agent_skill_zrem(a)

\* ------------------------------------------------------ the REST surface
\* main.py hands each request to its operation with the key of the path,
\* a str.
\* hist, when it keeps the requests: the agent records and the indexes as a
\* request found them, and the requests that returned, each with its
\* Response
Started ==
    IF budget.history
    THEN [hist EXCEPT !.before = [agentDoc |-> agentDoc, availIdx |-> availIdx]]
    ELSE hist

Returned(op, key, state, skill, resp) ==
    IF budget.history
    THEN [hist EXCEPT !.returns =
            Append(@, [op |-> op, key |-> key, state |-> state,
                       skill |-> skill, resp |-> resp])]
    ELSE hist

\* a request is taken up by the first idle client, while fewer than
\* budget.clients are being served
Serving(r) ==
    /\ rest[r].pc = "idle"
    /\ \A o \in Clients : o < r => rest[o].pc # "idle"
    /\ Cardinality({o \in Clients : rest[o].pc # "idle"}) < budget.clients

StartCall(r, op, key, state, skill, skills) ==
    /\ budget.ops > 0
    /\ budget' = [budget EXCEPT !.ops = @ - 1]
    /\ rest' = [rest EXCEPT ![r] = [IdleRest EXCEPT !.op = op, !.pc = "call"]]
    /\ call' = [call EXCEPT ![r] = NewCall(op, key, "str", state, skill, skills)]
    /\ hist' = Started
    /\ UNCHANGED <<storeVars, now, disp>>

create_agent(r) ==
    /\ Serving(r)
    /\ \E key \in Agents, skills \in SkillLists :
          StartCall(r, "create_agent", key, UNAVAILABLE, NoKey, skills)

delete_agent(r) ==
    /\ Serving(r)
    /\ \E key \in Agents :
          StartCall(r, "delete_agent", key, UNAVAILABLE, NoKey, <<>>)

set_agent_state(r) ==
    /\ Serving(r)
    /\ \E key \in Agents, state \in {AVAILABLE, UNAVAILABLE} :
          StartCall(r, "set_agent_state", key, state, NoKey, <<>>)

add_agent_skill(r) ==
    /\ Serving(r)
    /\ \E key \in Agents, skill \in Skills :
          /\ Len(agentDoc[key].skills) <= MaxSkillsLen
          /\ StartCall(r, "add_agent_skill", key, UNAVAILABLE, skill, <<>>)

delete_agent_skill(r) ==
    /\ Serving(r)
    /\ \E key \in Agents, skill \in Skills :
          StartCall(r, "delete_agent_skill", key, UNAVAILABLE, skill, <<>>)

\* change_agent_info starts at its exists(): there is no lock to acquire
change_agent_info(r) ==
    /\ Serving(r)
    /\ budget.ops > 0
    /\ \E key \in Agents :
          /\ budget' = [budget EXCEPT !.ops = @ - 1]
          /\ rest' = [rest EXCEPT ![r] =
                        [IdleRest EXCEPT !.op = "change_agent_info",
                                         !.pc = "call"]]
          /\ call' = [call EXCEPT ![r] =
                        [NewCall("change_agent_info", key, "str", UNAVAILABLE,
                                 NoKey, <<>>) EXCEPT !.pc = "cai_exists"]]
          /\ hist' = Started
          /\ UNCHANGED <<storeVars, now, disp>>

\* the operation returns its Response to main.py
CallReturn(r) ==
    /\ rest[r].pc = "call"
    /\ call[r].pc = "return"
    /\ call' = [call EXCEPT ![r] = NoCall]
    /\ rest' = [rest EXCEPT ![r] = IdleRest]
    /\ hist' = Returned(call[r].op, call[r].key, call[r].state, call[r].skill,
                        call[r].resp)
    /\ UNCHANGED <<storeVars, now, disp, budget>>

\* create_contact: json().set(contact_key, '$', {...}) under a fresh uuid;
\* on its reply the score of the zadd is read
create_contact(r) ==
    /\ Serving(r)
    /\ budget.contacts > 0
    /\ \E c \in Contacts, skills \in SkillSets, t \in TimeNow :
        /\ ~contactDoc[c].exists
        /\ budget' = [budget EXCEPT !.contacts = @ - 1]
        /\ contactDoc' = [contactDoc EXCEPT ![c] =
                            [exists |-> TRUE, skills |-> skills,
                             state |-> QUEUED, agent |-> NoKey]]
        /\ now' = t
        /\ rest' = [rest EXCEPT ![r] =
                      [IdleRest EXCEPT !.op = "create_contact",
                                       !.pc = "cc_zadd", !.key = c,
                                       !.timestamp = t]]
        /\ UNCHANGED <<agentDoc, availIdx, queue, lock, call, disp, hist>>

\* create_contact: zadd('queue', {contact_key: timestamp})
create_contact_zadd(r) ==
    /\ rest[r].pc = "cc_zadd"
    /\ queue' = ZAdd(queue, rest[r].key, rest[r].timestamp)
    /\ hist' = [hist EXCEPT !.enq[rest[r].key] = rest[r].timestamp]
    /\ rest' = [rest EXCEPT ![r] = IdleRest]
    /\ UNCHANGED <<agentDoc, availIdx, contactDoc, lock, now, call, disp,
                   budget>>

\* a completion that also clears the contact's agent
CompletedUnassigned(doc) == [doc EXCEPT !.state = COMPLETE, !.agent = NoKey]

\* complete_contact: json().set(contact_key, '$.state', COMPLETE)
Completed(doc) == [doc EXCEPT !.state = COMPLETE]

\* complete_contact: the pipeline (json().set '$.state' COMPLETE; expire), one
\* transaction.  The expiry, an hour later, is not modelled.
complete_contact(r) ==
    /\ Serving(r)
    /\ \E c \in Contacts :
        /\ contactDoc[c].exists
        /\ contactDoc' = [contactDoc EXCEPT ![c] = Completed(@)]
        /\ hist' = [hist EXCEPT !.abandoned =
                      IF contactDoc[c].state = QUEUED /\ queue[c] # Absent
                      THEN @ \cup {c} ELSE @]
        /\ UNCHANGED <<agentDoc, availIdx, queue, lock, now, call, rest, disp,
                       budget>>

\* set_acd_state: the agent state the ACD state stands for
set_acd_state(r) ==
    /\ Serving(r)
    /\ budget.ops > 0
    /\ \E state \in {AVAILABLE, UNAVAILABLE} :
        /\ budget' = [budget EXCEPT !.ops = @ - 1]
        /\ rest' = [rest EXCEPT ![r] =
                      [IdleRest EXCEPT !.op = "set_acd_state",
                                       !.pc = "scan", !.state = state]]
        /\ hist' = Started
        /\ UNCHANGED <<storeVars, now, call, disp>>

delete_skill(r) ==
    /\ Serving(r)
    /\ budget.ops > 0
    /\ \E skill \in Skills :
        /\ budget' = [budget EXCEPT !.ops = @ - 1]
        /\ rest' = [rest EXCEPT ![r] =
                      [IdleRest EXCEPT !.op = "delete_skill",
                                       !.pc = "ds_delete", !.skill = skill]]
        /\ hist' = Started
        /\ UNCHANGED <<storeVars, now, call, disp>>

\* delete_skill: client.delete(index of skill)
delete_skill_delete(r) ==
    /\ rest[r].pc = "ds_delete"
    /\ availIdx' = [availIdx EXCEPT ![rest[r].skill] = [k \in Agents |-> Absent]]
    /\ rest' = [rest EXCEPT ![r].pc = "scan"]
    /\ UNCHANGED <<agentDoc, contactDoc, queue, lock, now, call, disp,
                   budget, hist>>

\* The per-agent call of a bulk operation, on a key as scan_iter yields it
\* (bytes: the client is made without decode_responses).
BulkForm == "bytes"
Utf8Form == "str"

BulkCall(r, key) ==
    IF rest[r].op = "set_acd_state"
    THEN NewCall("set_agent_state", key, BulkForm, rest[r].state, NoKey, <<>>)
    ELSE NewCall("delete_agent_skill", key, BulkForm, UNAVAILABLE,
                 rest[r].skill, <<>>)

\* scan_iter('agent:*'): the agent documents there are, in any order.  (The
\* pattern also matches the lock keys held at the time; an operation on one
\* fails on the key's type and changes nothing.)  The first key's operation
\* is entered.
Scan(r) ==
    /\ rest[r].pc = "scan"
    /\ LET keys == {k \in Agents : agentDoc[k].exists}
       IN  IF keys = {}
           THEN /\ rest' = [rest EXCEPT ![r].pc = "return", ![r].resp = "OK"]
                /\ UNCHANGED call
           ELSE \E k \in keys :
                    /\ rest' = [rest EXCEPT ![r].pc = "loop",
                                            ![r].todo = keys \ {k}]
                    /\ call' = [call EXCEPT ![r] = BulkCall(r, k)]
    /\ UNCHANGED <<storeVars, now, disp, budget, hist>>

\* The per-agent operation returns into the loop: its Response is dropped,
\* and the next key's operation is entered; after the last, OK.  A LockError
\* raised out of it ends the bulk operation with ERR.
BulkReturn(r) ==
    /\ rest[r].pc = "loop"
    /\ call[r].pc = "return"
    /\ IF call[r].resp = "RAISED"
       THEN /\ rest' = [rest EXCEPT ![r].pc = "return", ![r].resp = "ERR",
                                    ![r].todo = {}]
            /\ call' = [call EXCEPT ![r] = NoCall]
       ELSE IF rest[r].todo = {}
            THEN /\ rest' = [rest EXCEPT ![r].pc = "return", ![r].resp = "OK"]
                 /\ call' = [call EXCEPT ![r] = NoCall]
            ELSE \E k \in rest[r].todo :
                    /\ rest' = [rest EXCEPT ![r].todo = @ \ {k}]
                    /\ call' = [call EXCEPT ![r] = BulkCall(r, k)]
    /\ UNCHANGED <<storeVars, now, disp, budget, hist>>

\* the bulk operation returns its Response
BulkDone(r) ==
    /\ rest[r].pc = "return"
    /\ rest' = [rest EXCEPT ![r] = IdleRest]
    /\ hist' = Returned(rest[r].op, NoKey, rest[r].state, rest[r].skill,
                        rest[r].resp)
    /\ UNCHANGED <<storeVars, now, call, disp, budget>>

\* ------------------------------------------------------------ dispatcher
\* asyncio.run(dispatch(client)): instances are started one after another
StartDispatcher(d) ==
    /\ disp[d].pc = "off"
    /\ \A e \in Dispatchers : e < d => disp[e].pc # "off"
    /\ budget.dispatchers > 0
    /\ budget' = [budget EXCEPT !.dispatchers = @ - 1]
    /\ disp' = [disp EXCEPT ![d] = IdleDisp]
    /\ UNCHANGED <<storeVars, now, call, rest, hist>>

\* the head of the queue
QueueHead(zset) == MinOfZ(zset)

\* bzpopmin('queue')
Pop(d) ==
    /\ disp[d].pc = "pop"
    /\ Members(queue) # {}
    /\ LET c == QueueHead(queue)
       IN  /\ queue' = ZRem(queue, c)
           /\ disp' = [disp EXCEPT ![d].pc = "getskills",
                                   ![d].contact_key = c,
                                   ![d].timestamp = queue[c]]
    /\ hist' = [hist EXCEPT !.changed[d] = {}]
    /\ UNCHANGED <<agentDoc, availIdx, contactDoc, lock, now, call, rest,
                   budget>>

\* json().get(contact_key, '$.skills')
GetSkills(d) ==
    /\ disp[d].pc = "getskills"
    /\ disp' = [disp EXCEPT ![d].pc = "zinter",
                            ![d].skills = contactDoc[disp[d].contact_key].skills]
    /\ UNCHANGED <<storeVars, now, call, rest, budget, hist>>

\* the dispatcher's claim of a candidate
Claim(agent) ==
    NewCall("set_agent_state", agent, Utf8Form, UNAVAILABLE, NoKey, <<>>)

\* zinter(avail_keys), and the first candidate's claim is entered
Intersect(d) ==
    /\ disp[d].pc = "zinter"
    /\ LET agents == ZInter(availIdx, disp[d].skills)
       IN  IF agents = <<>>
           THEN /\ disp' = [disp EXCEPT ![d].pc = "getstate"]
                /\ UNCHANGED call
           ELSE /\ disp' = [disp EXCEPT
                              ![d].pc = "claiming", ![d].agents = agents,
                              ![d].idx = 1,
                              ![d].scores = InterScores(availIdx, disp[d].skills)]
                /\ call' = [call EXCEPT ![d] = Claim(agents[1])]
    /\ UNCHANGED <<storeVars, now, rest, budget, hist>>

\* a loop that passes over the candidate after a failed one
SkipCandidate(idx) == idx + 2

\* The candidate the loop goes on to after one whose claim was not OK
NextCandidate(idx) == idx + 1

\* set_agent_state returns into the for loop: OK ends the loop with the
\* winner; on ERR or LOCKED the next candidate's claim is entered, and after
\* the last the loop ends with found = False.  A LockError raised out of
\* set_agent_state lands in dispatch's except clause, which logs it and
\* goes on to the next bzpopmin.
ClaimReturn(d) ==
    /\ disp[d].pc = "claiming"
    /\ call[d].pc = "return"
    /\ CASE call[d].resp = "OK" ->
              /\ disp' = [disp EXCEPT ![d].pc = "assign"]
              /\ call' = [call EXCEPT ![d] = NoCall]
         [] call[d].resp = "RAISED" ->
              /\ disp' = [disp EXCEPT ![d] = IdleDisp]
              /\ call' = [call EXCEPT ![d] = NoCall]
         [] OTHER ->
              LET next == NextCandidate(disp[d].idx)
                  failed == disp[d].failed \cup {disp[d].agents[disp[d].idx]}
              IN  IF next > Len(disp[d].agents)
                  THEN /\ disp' = [disp EXCEPT ![d].pc = "getstate",
                                               ![d].failed = failed]
                       /\ call' = [call EXCEPT ![d] = NoCall]
                  ELSE /\ disp' = [disp EXCEPT ![d].idx = next,
                                               ![d].failed = failed]
                       /\ call' = [call EXCEPT ![d] =
                                     Claim(disp[d].agents[next])]
    /\ UNCHANGED <<storeVars, now, rest, budget, hist>>

\* json().mset([(contact_key, '$.agent', agent), (contact_key, '$.state', ASSIGNED)])
Assign(d) ==
    /\ disp[d].pc = "assign"
    /\ contactDoc' = [contactDoc EXCEPT
                        ![disp[d].contact_key].agent = disp[d].agents[disp[d].idx],
                        ![disp[d].contact_key].state = ASSIGNED]
    /\ hist' = [hist EXCEPT !.assignLog = Append(@, disp[d].contact_key)]
    /\ disp' = [disp EXCEPT ![d] = IdleDisp]
    /\ UNCHANGED <<agentDoc, availIdx, queue, lock, now, call, rest, budget>>

\* not found: state = json().get(contact_key, '$.state')[0]
GetState(d) ==
    /\ disp[d].pc = "getstate"
    /\ IF contactDoc[disp[d].contact_key].state # COMPLETE
       THEN disp' = [disp EXCEPT ![d].pc = "requeue"]
       ELSE disp' = [disp EXCEPT ![d] = IdleDisp]
    /\ UNCHANGED <<storeVars, now, call, rest, budget, hist>>

\* The scores of the queue are kept exact up to MaxScore, the score of a
\* contact enqueued last and requeued MaxRequeues times; a larger one counts
\* as MaxScore.
MaxScore == MaxTime + MaxRequeues * Decelerator

\* a requeue under the score the contact was popped with
Undecelerated(timestamp) == timestamp

Decelerated(timestamp) ==
    IF timestamp + Decelerator <= MaxScore
    THEN timestamp + Decelerator ELSE MaxScore

\* zadd('queue', {contact_key: timestamp+1000}), then the sleep
Requeue(d) ==
    /\ disp[d].pc = "requeue"
    /\ queue' = ZAdd(queue, disp[d].contact_key, Decelerated(disp[d].timestamp))
    /\ hist' = [hist EXCEPT !.requeued = @ \cup {disp[d].contact_key}]
    /\ disp' = [disp EXCEPT ![d] = IdleDisp]
    /\ UNCHANGED <<agentDoc, availIdx, contactDoc, lock, now, call, rest, budget>>

\* ------------------------------------------------------------------ Next
ContactOp(r) ==
    \/ create_contact(r)
    \/ create_contact_zadd(r)
    \/ complete_contact(r)

DispatchStep(d) ==
    \/ StartDispatcher(d)
    \/ Pop(d)
    \/ GetSkills(d)
    \/ Intersect(d)
    \/ ClaimReturn(d)
    \/ Assign(d)
    \/ GetState(d)
    \/ Requeue(d)

\* every operation that takes a lock or scans the agents, the dispatcher
Next ==
    \/ \E a \in Actors : AgentOpStep(a)
    \/ \E r \in Clients :
          \/ ContactOp(r)
          \/ create_agent(r)
          \/ delete_agent(r)
          \/ set_agent_state(r)
          \/ add_agent_skill(r)
          \/ delete_agent_skill(r)
          \/ CallReturn(r)
          \/ set_acd_state(r)
          \/ delete_skill(r)
          \/ delete_skill_delete(r)
          \/ Scan(r)
          \/ BulkReturn(r)
          \/ BulkDone(r)
    \/ \E d \in Dispatchers : DispatchStep(d)

Spec == Init /\ [][Next]_vars

\* the contact operations and set_agent_state, one dispatcher instance
NextState ==
    \/ \E a \in Actors : set_agent_state_step(a)
    \/ \E r \in Clients :
          \/ ContactOp(r)
          \/ set_agent_state(r)
          \/ CallReturn(r)
    \/ \E d \in Dispatchers : DispatchStep(d)

SpecState == InitState /\ [][NextState]_vars

\* the contact operations, the dispatcher instances and their claims
NextRace ==
    \/ \E d \in Dispatchers : set_agent_state_step(d)
    \/ \E r \in Clients : ContactOp(r)
    \/ \E d \in Dispatchers : DispatchStep(d)

SpecRace == InitRace /\ [][NextRace]_vars

\* the same steps, from InitFifo
SpecFifo == InitFifo /\ [][NextRace]_vars

\* SpecQueue: the steps of SpecRace where only the first agent exists, with
\* one skill: a contact requiring another skill finds no agent.
InitQueue ==
    /\ \E since \in InitSince :
          InitStore([k \in Agents |->
                       IF k = 1 THEN Opened(<<1>>) ELSE NoAgent], since)
    /\ budget = [ops |-> 0, contacts |-> NumContacts,
                 dispatchers |-> NumDispatchers, clients |-> MaxClients,
                 history |-> FALSE]

SpecQueue == InitQueue /\ [][NextRace]_vars

\* the agent and bulk requests
NextSeq ==
    \/ \E r \in Clients : AgentOpStep(r)
    \/ \E r \in Clients :
          \/ change_agent_info(r)
          \/ change_agent_info_exists(r)
          \/ change_agent_info_mset(r)
          \/ create_agent(r)
          \/ delete_agent(r)
          \/ set_agent_state(r)
          \/ add_agent_skill(r)
          \/ delete_agent_skill(r)
          \/ CallReturn(r)
          \/ set_acd_state(r)
          \/ delete_skill(r)
          \/ delete_skill_delete(r)
          \/ Scan(r)
          \/ BulkReturn(r)
          \/ BulkDone(r)

SpecSeq == InitSeq /\ [][NextSeq]_vars

\* SpecDelete: the same requests, two served at a time; the first agent was
\* created with the simulator's skills and is UNAVAILABLE or AVAILABLE, the
\* others were never created.
InitDelete ==
    /\ \E doc \in {agent_obj(InitSkills), Opened(InitSkills)},
          since \in InitSince :
          InitStore([k \in Agents |-> IF k = 1 THEN doc ELSE NoAgent], since)
    /\ budget = [ops |-> MaxSeqOps, contacts |-> 0, dispatchers |-> 0,
                 clients |-> NumClients, history |-> FALSE]

SpecDelete == InitDelete /\ [][NextSeq]_vars

\* SpecLive: one contact, one dispatcher instance, one delete_agent_skill
\* request; the first agent has one skill, once or twice, the others were
\* never created.
InitLive ==
    /\ \E skills \in {<<1>>, <<1, 1>>}, since \in InitSince :
          InitStore([k \in Agents |->
                       IF k = 1 THEN Opened(skills) ELSE NoAgent], since)
    /\ budget = [ops |-> MaxOps, contacts |-> MaxContacts,
                 dispatchers |-> MaxDispatchers, clients |-> MaxClients,
                 history |-> FALSE]

NextLive ==
    \/ \E a \in Actors :
          \/ set_agent_state_step(a)
          \/ delete_agent_skill_index(a)
          \/ delete_agent_skill_pop(a)
          \/ delete_agent_skill_zrem(a)
    \/ \E r \in Clients :
          \/ ContactOp(r)
          \/ delete_agent_skill(r)
          \/ CallReturn(r)
    \/ \E d \in Dispatchers : DispatchStep(d)

\* dispatch is a loop that never ends: `while True`, each await returns
DispatcherRuns ==
    \E d \in Dispatchers : DispatchStep(d) \/ set_agent_state_step(d)

\* a request that was taken up runs to its return
RequestsFinish ==
    \E r \in Clients :
        \/ set_agent_state_step(r)
        \/ delete_agent_skill_index(r)
        \/ delete_agent_skill_pop(r)
        \/ delete_agent_skill_zrem(r)
        \/ create_contact_zadd(r)
        \/ CallReturn(r)

SpecLive ==
    /\ InitLive
    /\ [][NextLive]_vars
    /\ WF_vars(DispatcherRuns)
    /\ WF_vars(RequestsFinish)

\* ================================================================ claims
Quiescent ==
    /\ \A a \in Actors : call[a].pc = "idle"
    /\ \A r \in Clients : rest[r].pc = "idle"

Holding(d, c) ==
    /\ disp[d].pc \notin {"off", "pop"}
    /\ disp[d].contact_key = c

\* the pcs of a call inside the section its lock guards
InLockedSection(a) ==
    /\ call[a].pc \notin {"idle", "acquire", "return"}
    /\ call[a].acquired

\* C1: never two distinct contacts in ASSIGNED with the same agent, also
\* after the agent was set back to AVAILABLE while its contact is ASSIGNED.
C1_NoDoubleAssignment ==
    \A c1, c2 \in Contacts :
        (/\ c1 # c2
         /\ contactDoc[c1].state = ASSIGNED
         /\ contactDoc[c2].state = ASSIGNED)
        => contactDoc[c1].agent # contactDoc[c2].agent

\* C2: a contact whose state is COMPLETE keeps that state in every later step.
C2_CompletionTerminal ==
    [][\A c \in Contacts :
          (contactDoc[c].exists /\ contactDoc[c].state = COMPLETE)
          => contactDoc'[c].state = COMPLETE]_vars

\* C3: a dispatcher that popped a contact completed while QUEUED in the queue
\* claims no agent for it (no claim of the iteration returns OK) and does
\* not put it back on the queue.
C3_Abandonment ==
    \A d \in Dispatchers :
        disp[d].contact_key \in hist.abandoned
        => /\ disp[d].pc \notin {"assign", "requeue"}
           /\ call[d].resp # "OK"

\* C4: in a quiescent state, an agent is a member of the index of a skill
\* exactly when it exists, is AVAILABLE and has the skill.
C4_IndexStateAgreement ==
    Quiescent =>
        \A k \in Agents, s \in Skills :
            (availIdx[s][k] # Absent)
            <=> (/\ agentDoc[k].exists
                 /\ agentDoc[k].state = AVAILABLE
                 /\ s \in SkillsOf(agentDoc[k].skills))

\* C5: once create_contact has returned, a QUEUED contact is in the queue or
\* held by a dispatcher iteration.
C5_NoContactLost ==
    \A c \in Contacts :
        (/\ contactDoc[c].exists
         /\ contactDoc[c].state = QUEUED
         /\ \A r \in Clients : ~(rest[r].pc = "cc_zadd" /\ rest[r].key = c))
        => \/ queue[c] # Absent
           \/ \E d \in Dispatchers : Holding(d, c)

\* C6: a dispatcher whose claim of a candidate did not return OK goes on to
\* the next candidate, with the same contact.
C6_ClaimRace ==
    [][\A d \in Dispatchers :
          (/\ disp[d].pc = "claiming"
           /\ call[d].pc = "return"
           /\ call[d].resp # "OK"
           /\ disp[d].idx < Len(disp[d].agents)
           /\ disp'[d] # disp[d])
          => /\ disp'[d].pc = "claiming"
             /\ disp'[d].contact_key = disp[d].contact_key
             /\ disp'[d].idx = disp[d].idx + 1]_vars

\* C7: for each agent key, at most one actor at a time is inside the locked
\* section of an agent-mutating operation, the bulk operations' calls
\* included.
C7_MutualExclusion ==
    \A k \in Agents :
        Cardinality({a \in Actors : InLockedSection(a) /\ call[a].key = k}) <= 1

\* C8: an operation that could not acquire the agent's lock returns LOCKED to
\* its caller; it does not raise.
C8_LockedOutcome ==
    \A a \in Actors :
        (call[a].pc = "return" /\ ~call[a].acquired) => call[a].resp = "LOCKED"

\* C9: the agent the dispatcher assigns is ranked, by the sums of the scores
\* at the intersect call, after no candidate but those whose claim failed.
C9_LongestAvailable ==
    \A d \in Dispatchers :
        disp[d].pc = "assign" =>
            LET winner == disp[d].agents[disp[d].idx]
            IN  /\ winner \in DOMAIN disp[d].scores
                /\ \A o \in DOMAIN disp[d].scores \ {winner} :
                      Before(disp[d].scores, o, winner) => o \in disp[d].failed

\* C9's case: the winner is the first of two candidates with different score
\* sums, and not the one with the smaller key.
C9_Witness ==
    \E d \in Dispatchers :
        /\ disp[d].pc = "assign"
        /\ Len(disp[d].agents) = 2
        /\ disp[d].idx = 1
        /\ disp[d].agents[1] > disp[d].agents[2]
        /\ disp[d].scores[disp[d].agents[1]] < disp[d].scores[disp[d].agents[2]]

\* C10: with one dispatcher instance, of two contacts enqueued with scores
\* t1 < t2 and never requeued, the first is set to ASSIGNED first.
C10_Fifo ==
    \A i, j \in 1..Len(hist.assignLog) :
        LET c1 == hist.assignLog[i]
            c2 == hist.assignLog[j]
        IN  (/\ hist.enq[c1] < hist.enq[c2]
             /\ c1 \notin hist.requeued
             /\ c2 \notin hist.requeued)
            => i < j

\* C11: of two consecutive requests set_agent_state(k, S), with no request
\* in between, the second returns ERR (k is already in S): at most the first
\* is a real transition.
C11_IdempotentStateChange ==
    \A i \in 1..(Len(hist.returns) - 1) :
        LET first == hist.returns[i]
            second == hist.returns[i + 1]
        IN  (/\ first.op = "set_agent_state"
             /\ second.op = "set_agent_state"
             /\ first.key = second.key
             /\ first.state = second.state)
            => second.resp = "ERR"

\* C12: when set_acd_state(CLOSED) returns OK, with no other operation
\* running, every availability index is empty and every existing agent is
\* UNAVAILABLE.
C12_ClosedAcd ==
    \A r \in Clients :
        (/\ rest[r].pc = "return"
         /\ rest[r].op = "set_acd_state"
         /\ rest[r].state = UNAVAILABLE
         /\ rest[r].resp = "OK")
        => /\ \A s \in Skills, k \in Agents : availIdx[s][k] = Absent
           /\ \A k \in Agents :
                 agentDoc[k].exists => agentDoc[k].state = UNAVAILABLE

\* C13: when delete_skill(s) returns OK, with no other operation running,
\* the index of s is gone, no agent's skills list contains s, and the other
\* indexes (members and scores) and every agent's state are as the request
\* found them.
C13_DeleteSkillCascade ==
    \A r \in Clients :
        (/\ rest[r].pc = "return"
         /\ rest[r].op = "delete_skill"
         /\ rest[r].resp = "OK")
        => /\ \A k \in Agents : availIdx[rest[r].skill][k] = Absent
           /\ \A k \in Agents : rest[r].skill \notin SkillsOf(agentDoc[k].skills)
           /\ \A t \in Skills \ {rest[r].skill} :
                 availIdx[t] = hist.before.availIdx[t]
           /\ \A k \in Agents :
                 /\ agentDoc[k].exists = hist.before.agentDoc[k].exists
                 /\ agentDoc[k].state = hist.before.agentDoc[k].state

\* C14: when the dispatcher is about to write agent = a and state = ASSIGNED
\* into a contact, the agent record a exists.
C14_AssignedAgentExists ==
    \A d \in Dispatchers :
        disp[d].pc = "assign" => agentDoc[disp[d].agents[disp[d].idx]].exists

Waiting(c) ==
    /\ contactDoc[c].exists
    /\ contactDoc[c].state = QUEUED
    /\ \/ queue[c] # Absent
       \/ \E d \in Dispatchers : Holding(d, c)

Able(k, c) ==
    /\ agentDoc[k].exists
    /\ agentDoc[k].state = AVAILABLE
    /\ contactDoc[c].skills \subseteq SkillsOf(agentDoc[k].skills)

\* C16: if from some point on a contact is queued (in the queue or in a
\* dispatcher iteration) and not completed, and an agent with every skill of
\* the contact is AVAILABLE, then the contact is eventually ASSIGNED with
\* that agent.
C16_EventualMatch ==
    \A c \in Contacts, k \in Agents :
        <>[](Waiting(c) /\ Able(k, c))
        => <>(contactDoc[c].state = ASSIGNED /\ contactDoc[c].agent = k)


\* C17: when the claim set_agent_state(a, UNAVAILABLE) has returned OK and
\* the dispatcher is about to assign a to contact c, the agent a (if its
\* record exists) has every skill c requires, also when delete_agent_skill
\* or delete_skill runs concurrently.
C17_SkillMatch ==
    \A d \in Dispatchers :
        LET agent == disp[d].agents[disp[d].idx]
        IN  (disp[d].pc = "assign" /\ agentDoc[agent].exists)
            => disp[d].skills \subseteq SkillsOf(agentDoc[agent].skills)

\* C18: when create_agent(k) returns, with no other operation running: if k
\* did not exist, the response is OK, k exists with state UNAVAILABLE and is
\* a member of no index; if k existed, the response is ERR and k's record is
\* as the request found it.  In both cases every index and every other
\* agent's record are as the request found them.
C18_AgentCreation ==
    \A r \in Clients :
        (/\ rest[r].pc = "call"
         /\ call[r].pc = "return"
         /\ call[r].op = "create_agent")
        => LET k == call[r].key
               was == hist.before.agentDoc[k]
           IN  /\ availIdx = hist.before.availIdx
               /\ \A j \in Agents \ {k} : agentDoc[j] = hist.before.agentDoc[j]
               /\ IF was.exists
                  THEN /\ call[r].resp = "ERR"
                       /\ agentDoc[k] = was
                  ELSE /\ call[r].resp = "OK"
                       /\ agentDoc[k].exists
                       /\ agentDoc[k].state = UNAVAILABLE
                       /\ \A s \in Skills : availIdx[s][k] = Absent

\* C18's case: create_agent on a new key has returned OK with a non-empty
\* skills list, after create_agent on an existing key returned ERR.
C18_Witness ==
    \E r \in Clients :
        /\ rest[r].pc = "call"
        /\ call[r].pc = "return"
        /\ call[r].op = "create_agent"
        /\ call[r].resp = "OK"
        /\ agentDoc[call[r].key].skills # <<>>
        /\ \E i \in 1..Len(hist.returns) :
              /\ hist.returns[i].op = "create_agent"
              /\ hist.returns[i].resp = "ERR"

\* C19: when set_agent_state(k, S) returns OK, with no other operation
\* running, k's state is S and k is a member of the index of each of its
\* skills exactly when S = AVAILABLE; for every existing agent, one with an
\* empty skills list included.
C19_StateChangePostcondition ==
    \A r \in Clients :
        (/\ rest[r].pc = "call"
         /\ call[r].pc = "return"
         /\ call[r].op = "set_agent_state"
         /\ call[r].resp = "OK")
        => LET k == call[r].key
           IN  /\ agentDoc[k].state = call[r].state
               /\ \A s \in SkillsOf(agentDoc[k].skills) :
                     (availIdx[s][k] # Absent) <=> (call[r].state = AVAILABLE)

\* C20: while set_agent_state(k, UNAVAILABLE) is in its loop over k's
\* skills, with no other operation running, k's stored state is never
\* UNAVAILABLE while k is still a member of the index of one of its skills.
C20_RemovalBeforeStateFlip ==
    \A a \in Actors :
        (/\ call[a].op = "set_agent_state"
         /\ call[a].state = UNAVAILABLE
         /\ call[a].pc \in {"sas_index", "sas_setstate"}
         /\ agentDoc[call[a].key].state = UNAVAILABLE)
        => \A s \in SkillsOf(agentDoc[call[a].key].skills) :
              availIdx[s][call[a].key] = Absent

\* C21: a dispatcher pops the member of the queue with the least score and
\* keeps that score; an iteration that ends its claim loop without a winner
\* and reads a state other than COMPLETE goes on to requeue; the requeue
\* puts the contact back with the popped score + 1000 (for scores the model
\* keeps exact).  So a contact of a smaller score that is in the queue is
\* popped before the requeued contact is popped again.
C21_RequeueDecelerated ==
    [][\A d \in Dispatchers :
          LET c == disp[d].contact_key
              p == disp'[d].contact_key
          IN  /\ (disp[d].pc = "pop" /\ disp'[d].pc = "getskills")
                 => /\ queue[p] # Absent
                    /\ disp'[d].timestamp = queue[p]
                    /\ queue'[p] = Absent
                    /\ \A o \in Contacts :
                          queue[o] # Absent => queue[p] <= queue[o]
              /\ (/\ disp[d].pc = "getstate"
                  /\ disp'[d] # disp[d]
                  /\ contactDoc[c].state # COMPLETE)
                 => /\ disp'[d].pc = "requeue"
                    /\ disp'[d].contact_key = c
                    /\ disp'[d].timestamp = disp[d].timestamp
              /\ (/\ disp[d].pc = "requeue"
                  /\ disp'[d] # disp[d]
                  /\ disp[d].timestamp + Decelerator <= MaxScore)
                 => queue'[c] = disp[d].timestamp + Decelerator]_vars

\* C21's case: a contact was requeued and is in the queue under a score of
\* at least 1000, and a dispatcher has then popped another contact, of a
\* smaller score.
C21_Witness ==
    \E d \in Dispatchers, c \in Contacts :
        /\ c \in hist.requeued
        /\ queue[c] # Absent
        /\ queue[c] >= Decelerator
        /\ disp[d].pc = "getskills"
        /\ disp[d].contact_key # c
        /\ disp[d].timestamp < queue[c]

\* C22: in a dispatcher iteration the claim under way is the claim of the
\* current candidate; every candidate before it in the order of the
\* intersection was tried and did not return OK; the iteration has written
\* the state of no agent but the current candidate, of none when it found
\* no winner, and of exactly the winner when it goes on to assign; a claim
\* that returns ERR or LOCKED is followed by the claim of the next
\* candidate, and the agent written into the contact is the winner.
C22_ClaimLoop ==
    /\ [](\A d \in Dispatchers :
            LET agents == disp[d].agents
                idx == disp[d].idx
            IN  /\ disp[d].pc = "claiming"
                   => /\ call[d].op = "set_agent_state"
                      /\ call[d].key = agents[idx]
                      /\ call[d].state = UNAVAILABLE
                /\ disp[d].pc \in {"claiming", "assign"}
                   => /\ \A j \in 1..(idx - 1) : agents[j] \in disp[d].failed
                      /\ hist.changed[d] \subseteq {agents[idx]}
                /\ disp[d].pc = "assign" => hist.changed[d] = {agents[idx]}
                /\ disp[d].pc \in {"getstate", "requeue"}
                   => hist.changed[d] = {})
    /\ [][\A d \in Dispatchers :
            LET agents == disp[d].agents
                idx == disp[d].idx
            IN  /\ (/\ disp[d].pc = "claiming"
                    /\ call[d].pc = "return"
                    /\ call[d].resp \in {"ERR", "LOCKED"}
                    /\ disp'[d] # disp[d])
                   => IF idx < Len(agents)
                      THEN /\ disp'[d].pc = "claiming"
                           /\ disp'[d].idx = idx + 1
                           /\ call'[d].key = agents[idx + 1]
                           /\ call'[d].pc = "acquire"
                      ELSE disp'[d].pc = "getstate"
                /\ (disp[d].pc = "assign" /\ disp'[d] # disp[d])
                   => /\ contactDoc'[disp[d].contact_key].agent = agents[idx]
                      /\ hist.changed[d] = {agents[idx]}]_vars

\* C22's case: a dispatcher is about to assign its second candidate, after
\* the claim of the first did not return OK.
C22_Witness ==
    \E d \in Dispatchers :
        /\ disp[d].pc = "assign"
        /\ disp[d].idx = 2
        /\ disp[d].failed = {disp[d].agents[1]}
        /\ hist.changed[d] = {disp[d].agents[2]}

\* C23: no step takes a contact from ASSIGNED to QUEUED, and no step changes
\* the agent field of a contact once it holds an agent key.
C23_ContactTransitions ==
    [][\A c \in Contacts :
          /\ contactDoc[c].state = ASSIGNED => contactDoc'[c].state # QUEUED
          /\ contactDoc[c].agent # NoKey
             => contactDoc'[c].agent = contactDoc[c].agent]_vars

\* C23's case: a contact has its agent, and a later dispatcher iteration,
\* on another contact, is about to assign.
C23_Witness ==
    \E d \in Dispatchers, c \in Contacts :
        /\ contactDoc[c].agent # NoKey
        /\ contactDoc[c].state \in {ASSIGNED, COMPLETE}
        /\ disp[d].pc = "assign"
        /\ disp[d].contact_key # c

\* C24: when delete_agent(k) returns OK, the agent record k does not exist
\* and k is a member of no availability index, also when set_agent_state,
\* add_agent_skill or set_acd_state runs concurrently on k.
C24_AgentDeletion ==
    [][\A a \in Actors :
          (/\ call[a].op = "delete_agent"
           /\ call[a].pc = "finally"
           /\ call'[a].pc = "return"
           /\ call'[a].resp = "OK")
          => /\ ~agentDoc'[call[a].key].exists
             /\ \A s \in Skills : availIdx'[s][call[a].key] = Absent]_vars

\* C25: the step that makes a contact COMPLETE changes nothing else: the
\* contact's skills and agent, every other contact, the queue, every agent
\* record (the assigned agent's included) and every availability index are
\* as before.
C25_CompleteContactFrame ==
    [][\A c \in Contacts :
          (contactDoc[c].state # COMPLETE /\ contactDoc'[c].state = COMPLETE)
          => /\ contactDoc' = [contactDoc EXCEPT ![c].state = COMPLETE]
             /\ queue' = queue
             /\ agentDoc' = agentDoc
             /\ availIdx' = availIdx]_vars

\* C25's case: an assigned contact was completed, its agent is still
\* UNAVAILABLE and in no index, and another contact is in the queue.
C25_Witness ==
    \E c \in Contacts :
        /\ contactDoc[c].state = COMPLETE
        /\ contactDoc[c].agent # NoKey
        /\ agentDoc[contactDoc[c].agent].state = UNAVAILABLE
        /\ \A s \in Skills : availIdx[s][contactDoc[c].agent] = Absent
        /\ \E o \in Contacts \ {c} : queue[o] # Absent

\* C26: when set_agent_state, delete_agent, add_agent_skill,
\* delete_agent_skill or change_agent_info returns from a call on a key that
\* did not exist, the response is ERR and every agent record and every
\* index is as the request found it (no record was created); the same when
\* delete_agent_skill returns from a call for a skill the agent did not
\* have.  No other operation is running.
C26_NotFound ==
    \A r \in Clients :
        (/\ rest[r].pc = "call"
         /\ call[r].pc = "return"
         /\ call[r].op \in {"set_agent_state", "delete_agent", "add_agent_skill",
                            "delete_agent_skill", "change_agent_info"})
        => LET was == hist.before.agentDoc[call[r].key]
           IN  (\/ ~was.exists
                \/ /\ call[r].op = "delete_agent_skill"
                   /\ call[r].skill \notin SkillsOf(was.skills))
               => /\ call[r].resp = "ERR"
                  /\ agentDoc = hist.before.agentDoc
                  /\ availIdx = hist.before.availIdx

\* C26's case: delete_agent_skill has returned ERR for a skill an existing
\* agent did not have, after change_agent_info returned ERR for a key that
\* did not exist.
C26_Witness ==
    \E r \in Clients :
        /\ rest[r].pc = "call"
        /\ call[r].pc = "return"
        /\ call[r].op = "delete_agent_skill"
        /\ call[r].resp = "ERR"
        /\ hist.before.agentDoc[call[r].key].exists
        /\ hist.before.agentDoc[call[r].key].skills # <<>>
        /\ \E i \in 1..Len(hist.returns) :
              /\ hist.returns[i].op = "change_agent_info"
              /\ hist.returns[i].resp = "ERR"
              /\ ~agentDoc[hist.returns[i].key].exists

\* C27: with several dispatcher instances, a contact whose state is ASSIGNED
\* is not a member of the queue and is held by no dispatcher iteration, and
\* no contact was assigned twice.
C27_AssignedNotQueued ==
    /\ \A c \in Contacts :
          contactDoc[c].state = ASSIGNED
          => /\ queue[c] = Absent
             /\ \A d \in Dispatchers : ~Holding(d, c)
    /\ \A i, j \in 1..Len(hist.assignLog) :
          i # j => hist.assignLog[i] # hist.assignLog[j]

\* C27's case: a contact is ASSIGNED while another one, requeued before, is
\* in the queue and both dispatcher instances are running.
C27_Witness ==
    \E c, o \in Contacts :
        /\ contactDoc[c].state = ASSIGNED
        /\ o \in hist.requeued
        /\ queue[o] # Absent
        /\ \A d \in Dispatchers : disp[d].pc # "off"

\* C28: with several dispatcher instances, no contact is held by two
\* dispatcher iterations at once, and a contact held by an iteration (from
\* its pop to its assign, drop or requeue) is not a member of the queue, so
\* no other dispatcher can pop it.
C28_SingleHolder ==
    \A c \in Contacts, d \in Dispatchers :
        Holding(d, c)
        => /\ queue[c] = Absent
           /\ \A e \in Dispatchers \ {d} : ~Holding(e, c)

\* C28's case: two dispatcher iterations are under way at once, each on its
\* contact.
C28_Witness ==
    \E d, e \in Dispatchers, c, o \in Contacts :
        /\ d # e
        /\ c # o
        /\ Holding(d, c)
        /\ Holding(e, o)

====
